---- MODULE Spec2Model ----
(***************************************************************************)
(* Medica: the access gate (authorization record in localStorage, 28-day   *)
(* expiry, expiry timer), the quiz generation client and the quiz session  *)
(* of src/index.tsx, as one state machine.                                 *)
(*                                                                         *)
(* Time.  Date.now() is a number of milliseconds; TLC's integers are 32    *)
(* bits wide and EXPIRY_TIME_MS = 2 419 200 000 does not fit, so the       *)
(* model's clock counts whole seconds: every timestamp, EXPIRY_TIME_MS and *)
(* TIMER_INTERVAL are the source's values divided by 1000.  The code only  *)
(* adds, subtracts and compares timestamps, which is preserved.            *)
(*                                                                         *)
(* Text.  Strings the code transforms (the access code, the source text)   *)
(* are sequences of one-character strings; strings it only compares or     *)
(* passes on are TLA+ strings.  A nullable value is <<>> (null) or <<v>>.  *)
(***************************************************************************)
EXTENDS Integers, Sequences, FiniteSets, TLC

VARIABLES
    now,              \* Date.now(), in seconds
    store,            \* localStorage[AUTH_KEY]
    apiKey,           \* getApiKey(): << >> (undefined) or <<key>>
    phase,            \* "boot": page loaded, mount effect not run yet; "running";
                      \* "crashed": an error left the mount effect, nothing is rendered
    isAuthorized,     \* App state
    expiryTimestamp,  \* App state: << >> (null) or <<t>>
    step,             \* App state: 'input' | 'quiz'
    inputText,        \* App state
    questions,        \* App state
    loading,          \* App state
    error,            \* App state: << >> (null) or <<message>>
    inflight,         \* generateContent calls issued by this page and not answered
    gateError,        \* AccessGate state `error`
    userAnswers,      \* QuizSection state
    showResults,      \* QuizSection state
    score,            \* QuizSection state
    effects,          \* passive effects scheduled by the last render, not run yet
    timerDue,         \* ExpiryTimer: << >> (no interval set) or <<next firing time>>
    last              \* history: the last operation, its argument and result

vars == <<now, store, apiKey, phase, isAuthorized, expiryTimestamp, step,
          inputText, questions, loading, error, inflight, gateError,
          userAnswers, showResults, score, effects, timerDue, last>>

-----------------------------------------------------------------------------
(* Bounds *)

MaxClock == 1         \* instants observed after the epoch and after one session duration
MaxPad == 1           \* whitespace characters typed around an access code
MaxQuestions == 2     \* questions in a generated response
MaxTotal == 20        \* questions of a quiz that is rated

-----------------------------------------------------------------------------
(* Program constants *)

EXPIRY_DURATION_MINUTES == 40320
EXPIRY_TIME_MS == EXPIRY_DURATION_MINUTES * 60      \* in seconds, see above
TIMER_INTERVAL == 60                                \* setInterval(.., 60000)
MIN_TEXT_LENGTH == 50

sad == <<"s", "a", "d">>
happy == <<"h", "a", "p", "p", "y">>
man == <<"m", "a", "n">>
VALID_CODES == <<sad, happy, man>>

-----------------------------------------------------------------------------
(* Strings *)

UPPER == <<"A","B","C","D","E","F","G","H","I","J","K","L","M",
           "N","O","P","Q","R","S","T","U","V","W","X","Y","Z">>
LOWER == <<"a","b","c","d","e","f","g","h","i","j","k","l","m",
           "n","o","p","q","r","s","t","u","v","w","x","y","z">>
WhiteSpace == {" ", "\t", "\n"}

\* String.prototype.toLowerCase, character by character
toLowerCase(s) ==
    [i \in 1..Len(s) |->
        IF \E k \in 1..26 : UPPER[k] = s[i]
        THEN LOWER[CHOOSE k \in 1..26 : UPPER[k] = s[i]]
        ELSE s[i]]

RECURSIVE trimStart(_)
trimStart(s) ==
    IF s # <<>> /\ Head(s) \in WhiteSpace THEN trimStart(Tail(s)) ELSE s

RECURSIVE trimEnd(_)
trimEnd(s) ==
    IF s # <<>> /\ s[Len(s)] \in WhiteSpace
    THEN trimEnd(SubSeq(s, 1, Len(s) - 1)) ELSE s

\* trim that strips leading whitespace only
trim_leading_only(s) == trimStart(s)

\* String.prototype.trim
trim(s) == trimEnd(trimStart(s))

\* Array.prototype.includes
includes(arr, x) == \E i \in 1..Len(arr) : arr[i] = x

RECURSIVE Repeat(_, _)
Repeat(c, n) == IF n = 0 THEN <<>> ELSE <<c>> \o Repeat(c, n - 1)

-----------------------------------------------------------------------------
(* localStorage[AUTH_KEY] and JSON *)

\* getItem returns null (absent), or the stored string: the empty string, a
\* text that is not JSON (the old format, the bare word granted), or a JSON
\* text, modelled by the value it denotes: null or an object with an optional
\* status and an optional numeric timestamp.
Absent == [kind |-> "absent", status |-> "", hasTs |-> FALSE, ts |-> 0]
EmptyString == [kind |-> "empty", status |-> "", hasTs |-> FALSE, ts |-> 0]
OldFormat == [kind |-> "text", status |-> "", hasTs |-> FALSE, ts |-> 0]
JsonNull == [kind |-> "jsonNull", status |-> "", hasTs |-> FALSE, ts |-> 0]
\* The store cannot be read: localStorage.getItem raises (access to the
\* storage is denied to the page)
Unreadable == [kind |-> "unreadable", status |-> "", hasTs |-> FALSE, ts |-> 0]
JsonObject(st, has, t) ==
    [kind |-> "jsonObject", status |-> st, hasTs |-> has, ts |-> IF has THEN t ELSE 0]

\* JSON.stringify({status, timestamp})
JSON_stringify(authData) == JsonObject(authData.status, TRUE, authData.timestamp)

\* JSON.parse throws a SyntaxError on a text that is not JSON
JSON_parse_throws(text) == text.kind \in {"empty", "text"}

\* localStorage.getItem(AUTH_KEY) raises instead of returning
getItem_throws(stored) == stored.kind = "unreadable"

\* `if (storedAuth)`: null and the empty string are falsy
Truthy(storedAuth) == storedAuth.kind \notin {"absent", "empty"}

\* The instants the clock is observed at: around the epoch and around one
\* session duration later, so that a record expires within the run.
ClockValues ==
    (0..MaxClock) \cup {EXPIRY_TIME_MS - 1}
        \cup { EXPIRY_TIME_MS + d : d \in 0..MaxClock }

\* What the device's store can hold for AUTH_KEY when a page loads at time t:
\* nothing, a record written by an earlier run, the old format, or a value
\* edited by hand.
StoredValues(t) ==
    {Absent, EmptyString, OldFormat, JsonNull, Unreadable}
        \cup { JsonObject(st, has, ts) :
                 st \in {"granted", "revoked"}, has \in BOOLEAN,
                 ts \in { c \in ClockValues : c <= t } }

-----------------------------------------------------------------------------
(* The generative service and its responses *)

Options == <<"A", "B">>
RawIds == {1, 7}

\* A question as the service returns it: `id` is whatever the model wrote,
\* or is not there at all.
RawQuestions ==
    [id : RawIds, options : {Options}, correctAnswer : {"A", "B"}]
        \cup {[options |-> Options, correctAnswer |-> "A"]}

RECURSIVE SeqsUpTo(_, _)
SeqsUpTo(S, n) ==
    IF n = 0 THEN {<<>>}
    ELSE LET shorter == SeqsUpTo(S, n - 1)
         IN  shorter \cup { Append(q, x) : q \in { r \in shorter : Len(r) = n - 1 }, x \in S }

\* The words of a generated text that is not JSON, around the character
\* JSON.parse stops at
Excerpts == { <<"Sorry">>, <<"API key", "rotation">> }

\* response.text: undefined or empty, a text that is not JSON, or a JSON text
\* (modelled by its value): null, an object without `questions`, an object
\* whose `questions` is not an array, an object with a `questions` array.
ResponseTexts ==
    { [kind |-> k, questions |-> <<>>, excerpt |-> <<>>] :
        k \in {"empty", "jsonNull", "noQuestions", "questionsNotArray"} }
    \cup { [kind |-> "notJson", questions |-> <<>>, excerpt |-> e] : e \in Excerpts }
    \cup { [kind |-> "quiz", questions |-> qs, excerpt |-> <<>>] :
              qs \in SeqsUpTo(RawQuestions, MaxQuestions) }

\* Messages are sequences of phrases; String.prototype.includes looks for one.
ApiKeyMessage == <<"API key", "not valid">>
ApiKeyMessage2 == <<"Invalid", "API Key">>
NetworkMessage == <<"fetch failed">>

\* What generateContent does: throws (an Error with a message, or a value
\* that is not an Error), or resolves to a response carrying a text.
ServiceOutcomes ==
    { [kind |-> "throw", isError |-> TRUE, message |-> m, text |-> <<>>] :
        m \in {ApiKeyMessage, ApiKeyMessage2, NetworkMessage} }
    \cup { [kind |-> "throw", isError |-> FALSE, message |-> <<>>, text |-> <<>>] }
    \cup { [kind |-> "response", isError |-> FALSE, message |-> <<>>, text |-> <<t>>] :
            t \in ResponseTexts }

MissingKeyError == <<"System Error: API_KEY is missing">>
ConfigurationError == <<"Configuration Error: API Key is invalid or missing">>
NoContentError == <<"No content generated">>
\* The message of the SyntaxError JSON.parse throws: V8 quotes the text
\* around the offending token (Unexpected token 'S', "Sorry" is not valid JSON)
SyntaxErrorMessage(excerpt) == <<"Unexpected token">> \o excerpt \o <<"is not valid JSON">>
TypeErrorMessage == <<"TypeError: Cannot read properties">>
FailedMessage == <<"Failed to generate assessment.">>
UnexpectedError == <<"An unexpected error occurred.">>
TooShortError == <<"Please enter sufficient text (at least 50 characters) for analysis.">>

Failure(msg) == [success |-> FALSE, data |-> <<>>, error |-> <<msg>>]
Success(qs) == [success |-> TRUE, data |-> <<qs>>, error |-> <<>>]

\* processedQuestions with the array index as id: ids start at 0
processedQuestions_zero_based(qs) ==
    [index \in 1..Len(qs) |-> ("id" :> (index - 1)) @@ qs[index]]

\* processedQuestions trusting the ids of the response, the index standing
\* in only where a question has none: ({id: index + 1, ...q})
processedQuestions_keeps_ids(qs) ==
    [index \in 1..Len(qs) |-> qs[index] @@ ("id" :> index)]

\* quizData.questions.map((q, index) => ({...q, id: index + 1}))
processedQuestions(qs) ==
    [index \in 1..Len(qs) |-> ("id" :> index) @@ qs[index]]

\* The catch block of generateQuizFromText, for a thrown Error with message m
\* (isError) or a thrown value that is not an Error.
catchError(isError, m) ==
    IF isError /\ (includes(m, "API key") \/ includes(m, "API Key"))
    THEN Failure(ConfigurationError)
    ELSE Failure(IF isError THEN m ELSE FailedMessage)

\* generateQuizFromText reading (quizData?.questions ?? []): a JSON text
\* without a questions array gives an empty quiz
generateQuizFromText_lenient(o) ==
    IF o.kind = "throw" THEN catchError(o.isError, o.message)
    ELSE LET outputText == o.text[1] IN
         CASE outputText.kind = "empty" -> catchError(TRUE, NoContentError)
           [] outputText.kind = "notJson" -> catchError(TRUE, SyntaxErrorMessage(outputText.excerpt))
           [] outputText.kind = "questionsNotArray" -> catchError(TRUE, TypeErrorMessage)
           [] outputText.kind \in {"jsonNull", "noQuestions"} -> Success(<<>>)
           [] OTHER -> Success(processedQuestions(outputText.questions))

\* generateQuizFromText once generateContent has settled with outcome o
generateQuizFromText(o) ==
    IF o.kind = "throw" THEN catchError(o.isError, o.message)
    ELSE LET outputText == o.text[1] IN
         CASE outputText.kind = "empty" -> catchError(TRUE, NoContentError)
           [] outputText.kind = "notJson" -> catchError(TRUE, SyntaxErrorMessage(outputText.excerpt))
           [] outputText.kind \in {"jsonNull", "noQuestions", "questionsNotArray"} ->
                  catchError(TRUE, TypeErrorMessage)
           [] OTHER -> Success(processedQuestions(outputText.questions))

-----------------------------------------------------------------------------
(* Inputs *)

\* What a user types into the access-code field: a word, possibly with
\* whitespace typed (or pasted) around it.
Pads == SeqsUpTo({" "}, MaxPad)
Words ==
    { sad, <<"S","a","D">>, <<"H","a","P","P","y">>, <<"M","A","N">>,
      <<"\t","s","a","d","\n">>,
      <<>>, <<"s"," ","a","d">>, <<"s","a","d","s">> }
Codes == { p1 \o w \o p2 : p1 \in Pads, w \in Words, p2 \in Pads }

\* What a user puts into the source-text area.
Texts ==
    { <<>>,
      Repeat("x", MIN_TEXT_LENGTH - 1),
      Repeat("x", MIN_TEXT_LENGTH),
      Repeat(" ", MIN_TEXT_LENGTH),
      <<" ">> \o Repeat("x", MIN_TEXT_LENGTH - 1) }

-----------------------------------------------------------------------------
(* State after construction: the page has loaded, React holds the initial   *)
(* state of every component, no effect has run.                             *)

NoAnswers == << >>
NoLast == [op |-> "load", arg |-> <<>>, ret |-> FALSE, boot |-> "load"]

InitialReactState ==
    /\ phase = "boot"
    /\ isAuthorized = FALSE
    /\ expiryTimestamp = <<>>
    /\ step = "input"
    /\ inputText = <<>>
    /\ questions = <<>>
    /\ loading = FALSE
    /\ error = <<>>
    /\ inflight = 0
    /\ gateError = FALSE
    /\ userAnswers = NoAnswers
    /\ showResults = FALSE
    /\ score = 0
    /\ effects = {}
    /\ timerDue = <<>>

Init ==
    /\ now \in ClockValues
    /\ store \in StoredValues(now)
    /\ apiKey \in {<<>>, <<"key">>}
    /\ InitialReactState
    /\ last = NoLast

\* `last` records the operation a step performed, its argument and its
\* result; while a page is loading, `boot` tells what caused the load: the
\* first load, a reload by the user (at the very instant of a successful
\* unlock or later), or the reload the expiry timer forces.
SetLast(op, arg, ret) ==
    last' = [op |-> op, arg |-> arg, ret |-> ret, boot |-> ""]

SetLastBoot(op, cause) ==
    last' = [op |-> op, arg |-> <<>>, ret |-> (cause = "expiry"), boot |-> cause]

-----------------------------------------------------------------------------
(* Rendering: which components are mounted, and what mounting does *)

\* {isAuthorized && expiryTimestamp && <ExpiryTimer .../>}: null and 0 are falsy
TimerMounted(auth, expiry) == auth /\ expiry # <<>> /\ expiry[1] # 0

\* <QuizSection> is rendered when authorized and step is 'quiz'
QuizMounted(auth, st) == auth /\ st = "quiz"

\* QuizSection's state exists while it is mounted and starts afresh at a mount
QuizStateInitial ==
    /\ userAnswers' = NoAnswers
    /\ showResults' = FALSE
    /\ score' = 0

\* The render that follows an update of App's state: ExpiryTimer is mounted
\* (its effect is scheduled) or unmounted (its interval is cleared), and
\* QuizSection loses its state when it is not rendered.
RenderApp ==
    /\ IF TimerMounted(isAuthorized', expiryTimestamp')
       THEN IF TimerMounted(isAuthorized, expiryTimestamp) /\ expiryTimestamp' = expiryTimestamp
            THEN timerDue' = timerDue
            ELSE timerDue' = <<>>
       ELSE timerDue' = <<>>
    /\ effects' =
          (IF ~TimerMounted(isAuthorized', expiryTimestamp') THEN {}
           ELSE IF TimerMounted(isAuthorized, expiryTimestamp) /\ expiryTimestamp' = expiryTimestamp
                THEN effects \cap {"timer"}
                ELSE {"timer"})
          \cup
          (IF ~(QuizMounted(isAuthorized', step') /\ QuizMounted(isAuthorized, step)) THEN {}
           ELSE IF showResults /\ questions' # questions
                THEN {"score"}
                ELSE effects \cap {"score"})
    /\ IF QuizMounted(isAuthorized', step') /\ QuizMounted(isAuthorized, step)
       THEN UNCHANGED <<userAnswers, showResults, score>>
       ELSE QuizStateInitial

\* window.location.reload(), or the user reloading the page: the page and
\* everything in its memory go; the store and the clock stay.
ReloadPage ==
    /\ phase' = "boot"
    /\ isAuthorized' = FALSE
    /\ expiryTimestamp' = <<>>
    /\ step' = "input"
    /\ inputText' = <<>>
    /\ questions' = <<>>
    /\ loading' = FALSE
    /\ error' = <<>>
    /\ inflight' = 0
    /\ gateError' = FALSE
    /\ QuizStateInitial
    /\ effects' = {}
    /\ timerDue' = <<>>
    /\ UNCHANGED <<now, store, apiKey>>

-----------------------------------------------------------------------------
(* Authorization *)

\* isValidAuth with the age test off by one: a record exactly one session
\* duration old is still accepted
isValidAuth_inclusive(authData, t) ==
    /\ authData.kind # "jsonNull"
    /\ authData.status = "granted"
    /\ authData.hasTs /\ authData.ts # 0
    /\ t - authData.ts <= EXPIRY_TIME_MS

\* The condition under which checkAuth accepts the parsed record
isValidAuth(authData, t) ==
    /\ authData.kind # "jsonNull"
    /\ authData.status = "granted"
    /\ authData.hasTs /\ authData.ts # 0
    /\ t - authData.ts < EXPIRY_TIME_MS

\* checkAuth counting the session from the check instead of from the
\* record: setExpiryTimestamp(now + EXPIRY_TIME_MS)
checkAuth_expiry_from_now(storedAuth, t) ==
    IF Truthy(storedAuth)
    THEN IF ~JSON_parse_throws(storedAuth) /\ isValidAuth(storedAuth, t)
         THEN [store |-> storedAuth, set |-> TRUE, isAuthorized |-> TRUE,
               expiryTimestamp |-> <<t + EXPIRY_TIME_MS>>]
         ELSE [store |-> Absent, set |-> TRUE, isAuthorized |-> FALSE, expiryTimestamp |-> <<>>]
    ELSE [store |-> storedAuth, set |-> FALSE, isAuthorized |-> FALSE, expiryTimestamp |-> <<>>]

\* checkAuth at time t on the stored value: what it leaves in the store and
\* what it sets (set = FALSE: no setter is called)
checkAuth(storedAuth, t) ==
    IF Truthy(storedAuth)
    THEN IF ~JSON_parse_throws(storedAuth) /\ isValidAuth(storedAuth, t)
         THEN [store |-> storedAuth, set |-> TRUE, isAuthorized |-> TRUE,
               expiryTimestamp |-> <<storedAuth.ts + EXPIRY_TIME_MS>>]
         ELSE [store |-> Absent, set |-> TRUE, isAuthorized |-> FALSE, expiryTimestamp |-> <<>>]
    ELSE [store |-> storedAuth, set |-> FALSE, isAuthorized |-> FALSE, expiryTimestamp |-> <<>>]

\* App's mount effect.  getItem is called before the try block: what it
\* raises leaves checkAuth and the effect, and React, having no error
\* boundary above App, unmounts the whole tree.  (The initial render reads
\* the theme from the same storage, outside any try block as well.)
Mount ==
    /\ phase = "boot"
    /\ IF getItem_throws(store)
       THEN /\ phase' = "crashed"
            /\ UNCHANGED <<store, isAuthorized, expiryTimestamp>>
            /\ SetLast("checkAuth", <<store, last.boot>>, FALSE)
       ELSE LET r == checkAuth(store, now) IN
            /\ store' = r.store
            /\ isAuthorized' = (IF r.set THEN r.isAuthorized ELSE isAuthorized)
            /\ expiryTimestamp' = (IF r.isAuthorized THEN r.expiryTimestamp ELSE expiryTimestamp)
            /\ SetLast("checkAuth", <<store, last.boot>>, r.isAuthorized)
            /\ phase' = "running"
    /\ UNCHANGED <<now, apiKey, step, inputText, questions, loading, error, inflight, gateError>>
    /\ RenderApp

\* const normalizeCode = code.trim().toLowerCase()
normalizeCode(code) == toLowerCase(trim(code))

\* handleUnlock's test
unlockSucceeds(code) == includes(VALID_CODES, normalizeCode(code))

\* handleUnlock that writes the record before it tests the code
handleUnlock_writes_first(code) ==
    /\ store' = JSON_stringify([status |-> "granted", timestamp |-> now])
    /\ IF unlockSucceeds(code)
       THEN /\ isAuthorized' = TRUE
            /\ expiryTimestamp' = <<now + EXPIRY_TIME_MS>>
       ELSE UNCHANGED <<isAuthorized, expiryTimestamp>>

\* handleUnlock(code), called by AccessGate.handleSubmit
handleUnlock(code) ==
    IF unlockSucceeds(code)
    THEN /\ store' = JSON_stringify([status |-> "granted", timestamp |-> now])
         /\ isAuthorized' = TRUE
         /\ expiryTimestamp' = <<now + EXPIRY_TIME_MS>>
    ELSE UNCHANGED <<store, isAuthorized, expiryTimestamp>>

\* AccessGate.handleSubmit with `code` in the field
handleSubmit(code) ==
    /\ phase = "running" /\ ~isAuthorized /\ effects = {}
    /\ handleUnlock(code)
    /\ gateError' = ~unlockSucceeds(code)
    /\ SetLast("unlock", code, unlockSucceeds(code))
    /\ UNCHANGED <<now, apiKey, phase, step, inputText, questions, loading, error, inflight>>
    /\ RenderApp

\* handleReset that forgets the questions
handleReset_keeps_questions ==
    /\ step' = "input"
    /\ questions' = questions
    /\ error' = <<>>
    /\ inputText' = <<>>

\* handleReset without setStep('input')
handleReset_stays_on_quiz ==
    /\ step' = step
    /\ questions' = <<>>
    /\ error' = <<>>
    /\ inputText' = <<>>

\* handleReset's four setters
handleReset ==
    /\ step' = "input"
    /\ questions' = <<>>
    /\ error' = <<>>
    /\ inputText' = <<>>

\* handleLogout, behind the Exit System button shown while authorized
handleLogout ==
    /\ phase = "running" /\ isAuthorized /\ effects = {}
    /\ store' = Absent
    /\ isAuthorized' = FALSE
    /\ handleReset
    /\ gateError' = FALSE
    /\ SetLast("logout", <<step>>, FALSE)
    /\ UNCHANGED <<now, apiKey, phase, expiryTimestamp, loading, inflight>>
    /\ RenderApp

\* A click on the logo, on New Analysis or on Restart
Reset ==
    /\ phase = "running" /\ isAuthorized /\ effects = {}
    /\ handleReset
    /\ SetLast("reset", <<step, showResults, DOMAIN userAnswers>>, FALSE)
    /\ UNCHANGED <<now, store, apiKey, phase, isAuthorized, expiryTimestamp, loading,
                   inflight, gateError>>
    /\ RenderApp

\* The user reloads the page
Reload ==
    /\ phase \in {"running", "crashed"}
    /\ ReloadPage
    /\ SetLastBoot("reload", IF last.op = "unlock" /\ last.ret
                              THEN "reload after unlock" ELSE "reload")

\* Time passes
Tick ==
    /\ \E t \in ClockValues : t > now /\ now' = t
    /\ last' = [op |-> "tick", arg |-> <<>>, ret |-> FALSE,
                boot |-> IF last.boot = "reload after unlock" THEN "reload" ELSE last.boot]
    /\ UNCHANGED <<store, apiKey, phase, isAuthorized, expiryTimestamp, step, inputText,
                   questions, loading, error, inflight, gateError, userAnswers,
                   showResults, score, effects, timerDue>>

-----------------------------------------------------------------------------
(* ExpiryTimer *)

\* calculateTimeLeft with a strict test: difference < 0
timerExpired_strict(targetDate, t) == targetDate - t < 0

\* calculateTimeLeft reloading within the last minute of the session:
\* difference <= 60000
timerExpired_early(targetDate, t) == targetDate - t <= TIMER_INTERVAL

\* calculateTimeLeft's test: difference = targetDate - now; difference <= 0
timerExpired(targetDate, t) == targetDate - t <= 0

\* The first interval firing after time t, for an interval due at time due
nextDue(due, t) ==
    IF due > t THEN due ELSE due + ((t - due) \div TIMER_INTERVAL + 1) * TIMER_INTERVAL

\* ExpiryTimer's effect, run after the render that mounted it:
\* calculateTimeLeft(), then setInterval(calculateTimeLeft, 60000)
RunTimerEffect ==
    /\ phase = "running" /\ "timer" \in effects
    /\ IF timerExpired(expiryTimestamp[1], now)
       THEN ReloadPage
       ELSE /\ timerDue' = <<now + TIMER_INTERVAL>>
            /\ effects' = effects \ {"timer"}
            /\ UNCHANGED <<now, store, apiKey, phase, isAuthorized, expiryTimestamp, step,
                           inputText, questions, loading, error, inflight, gateError,
                           userAnswers, showResults, score>>
    /\ IF timerExpired(expiryTimestamp[1], now)
       THEN SetLastBoot("timer", "expiry")
       ELSE SetLast("timer", <<>>, FALSE)

\* The interval fires: calculateTimeLeft()
TimerFire ==
    /\ phase = "running" /\ effects = {}
    /\ timerDue # <<>> /\ now >= timerDue[1]
    /\ IF timerExpired(expiryTimestamp[1], now)
       THEN ReloadPage
       ELSE /\ timerDue' = <<nextDue(timerDue[1], now)>>
            /\ UNCHANGED <<now, store, apiKey, phase, isAuthorized, expiryTimestamp, step,
                           inputText, questions, loading, error, inflight, gateError,
                           userAnswers, showResults, score, effects>>
    /\ IF timerExpired(expiryTimestamp[1], now)
       THEN SetLastBoot("timer", "expiry")
       ELSE SetLast("timer", <<>>, FALSE)

-----------------------------------------------------------------------------
(* Generation *)

\* InputSection: isTooShort = text.length < 50
isTooShort(text) == Len(text) < MIN_TEXT_LENGTH

\* handleGenerate testing the length of the text as typed:
\* !inputText || inputText.length < 50
rejectsText_untrimmed(text) == text = <<>> \/ Len(text) < MIN_TEXT_LENGTH

\* handleGenerate's own test: !inputText || inputText.trim().length < 50
rejectsText(text) == text = <<>> \/ Len(trim(text)) < MIN_TEXT_LENGTH

\* The textarea's onChange; the textarea is disabled while loading
setText(text) ==
    /\ phase = "running" /\ isAuthorized /\ step = "input" /\ effects = {}
    /\ ~loading
    /\ inputText' = text
    /\ SetLast("setText", <<>>, FALSE)
    /\ UNCHANGED <<now, store, apiKey, phase, isAuthorized, expiryTimestamp, step, questions,
                   loading, error, inflight, gateError, userAnswers, showResults, score,
                   effects, timerDue>>

\* handleGenerate with setStep('quiz') after the if: a failure too moves on
\* to the quiz
applyResult_always_steps(result) ==
    /\ IF result.success /\ result.data # <<>>
       THEN /\ questions' = result.data[1]
            /\ error' = error
       ELSE /\ error' = (IF result.error # <<>> THEN result.error ELSE <<UnexpectedError>>)
            /\ UNCHANGED questions
    /\ step' = "quiz"
    /\ loading' = FALSE

\* handleGenerate without setStep('quiz'): the questions are set and the
\* input screen stays
applyResult_stays_on_input(result) ==
    /\ IF result.success /\ result.data # <<>>
       THEN /\ questions' = result.data[1]
            /\ error' = error
       ELSE /\ error' = (IF result.error # <<>> THEN result.error ELSE <<UnexpectedError>>)
            /\ UNCHANGED questions
    /\ step' = step
    /\ loading' = FALSE

\* handleGenerate with setLoading(false) inside the success branch only
applyResult_loading_stuck(result) ==
    /\ IF result.success /\ result.data # <<>>
       THEN /\ questions' = result.data[1]
            /\ step' = "quiz"
            /\ error' = error
            /\ loading' = FALSE
       ELSE /\ error' = (IF result.error # <<>> THEN result.error ELSE <<UnexpectedError>>)
            /\ UNCHANGED <<questions, step, loading>>

\* handleGenerate after `await generateQuizFromText(inputText)` returned result
applyResult(result) ==
    /\ IF result.success /\ result.data # <<>>
       THEN /\ questions' = result.data[1]
            /\ step' = "quiz"
            /\ error' = error
       ELSE /\ error' = (IF result.error # <<>> THEN result.error ELSE <<UnexpectedError>>)
            /\ UNCHANGED <<questions, step>>
    /\ loading' = FALSE

\* The Generate button with disabled={isTooShort}: clickable while loading
generateDisabled_ignores_loading(busy, text) == isTooShort(text)

\* The Generate button: disabled={loading || isTooShort}
generateDisabled(busy, text) == busy \/ isTooShort(text)

\* A click on Generate: nothing while the button is disabled, else
\* handleGenerate up to its await.  Without an API key generateQuizFromText
\* returns at once and handleGenerate runs to its end.
handleGenerate ==
    /\ phase = "running" /\ isAuthorized /\ step = "input" /\ effects = {}
    /\ IF generateDisabled(loading, inputText)
       THEN /\ UNCHANGED <<questions, step, loading, inflight, error>>
            /\ SetLast("generate", <<"disabled">>, FALSE)
       ELSE IF rejectsText(inputText)
       THEN /\ error' = <<TooShortError>>
            /\ UNCHANGED <<questions, step, loading, inflight>>
            /\ SetLast("generate", <<"rejected">>, FALSE)
       ELSE IF apiKey = <<>>
            THEN /\ error' = <<MissingKeyError>>
                 /\ UNCHANGED <<questions, step, loading, inflight>>
                 /\ SetLast("generate", <<"no key">>, FALSE)
            ELSE /\ loading' = TRUE
                 /\ error' = <<>>
                 /\ inflight' = inflight + 1
                 /\ UNCHANGED <<questions, step>>
                 /\ SetLast("generate", <<"issued">>, TRUE)
    /\ UNCHANGED <<now, store, apiKey, phase, isAuthorized, expiryTimestamp, inputText, gateError>>
    /\ RenderApp

\* generateContent settles with outcome o; generateQuizFromText and the rest
\* of handleGenerate run
Respond(o) ==
    /\ phase = "running" /\ effects = {}
    /\ inflight > 0
    /\ inflight' = inflight - 1
    /\ applyResult(generateQuizFromText(o))
    /\ SetLast("respond", <<o, generateQuizFromText(o)>>, generateQuizFromText(o).success)
    /\ UNCHANGED <<now, store, apiKey, phase, isAuthorized, expiryTimestamp, inputText, gateError>>
    /\ RenderApp

-----------------------------------------------------------------------------
(* QuizSection *)

answeredCount == Cardinality(DOMAIN userAnswers)
totalCount == Len(questions)
\* isComplete as soon as one question is answered
isComplete_any_answer == answeredCount > 0

\* const isComplete = answeredCount === totalCount
isComplete == answeredCount = totalCount

\* The score effect's count of questions answered correctly
RECURSIVE countCorrect(_, _)
countCorrect(qs, answers) ==
    IF qs = <<>> THEN 0
    ELSE (IF Head(qs).id \in DOMAIN answers /\ answers[Head(qs).id] = Head(qs).correctAnswer
          THEN 1 ELSE 0) + countCorrect(Tail(qs), answers)

\* handleAnswerSelect without `if (showResults) return`
handleAnswerSelect_after_results(qId, option) ==
    /\ phase = "running" /\ QuizMounted(isAuthorized, step) /\ effects = {}
    /\ userAnswers' = (qId :> option) @@ userAnswers
    /\ effects' = (IF showResults THEN effects \cup {"score"} ELSE effects)
    /\ SetLast("select", <<qId, option, userAnswers>>, ~showResults)
    /\ UNCHANGED <<now, store, apiKey, phase, isAuthorized, expiryTimestamp, step, inputText,
                   questions, loading, error, inflight, gateError, showResults, score, timerDue>>

\* handleAnswerSelect spreading the previous answers last, so that the
\* first answer to a question stays: ({[qId]: option, ...prev})
handleAnswerSelect_first_wins(qId, option) ==
    /\ phase = "running" /\ QuizMounted(isAuthorized, step) /\ effects = {}
    /\ IF showResults
       THEN UNCHANGED <<userAnswers, effects>>
       ELSE /\ userAnswers' = userAnswers @@ (qId :> option)
            /\ effects' = effects
    /\ SetLast("select", <<qId, option, userAnswers>>, ~showResults)
    /\ UNCHANGED <<now, store, apiKey, phase, isAuthorized, expiryTimestamp, step, inputText,
                   questions, loading, error, inflight, gateError, showResults, score, timerDue>>

\* handleAnswerSelect taking a selection of the stored option for a
\* withdrawal of the answer
handleAnswerSelect_toggles(qId, option) ==
    /\ phase = "running" /\ QuizMounted(isAuthorized, step) /\ effects = {}
    /\ IF showResults
       THEN UNCHANGED <<userAnswers, effects>>
       ELSE /\ userAnswers' =
                  (IF qId \in DOMAIN userAnswers /\ userAnswers[qId] = option
                   THEN [id \in DOMAIN userAnswers \ {qId} |-> userAnswers[id]]
                   ELSE (qId :> option) @@ userAnswers)
            /\ effects' = effects
    /\ SetLast("select", <<qId, option, userAnswers>>, ~showResults)
    /\ UNCHANGED <<now, store, apiKey, phase, isAuthorized, expiryTimestamp, step, inputText,
                   questions, loading, error, inflight, gateError, showResults, score, timerDue>>

\* handleAnswerSelect(qId, option): nothing once the results are shown
handleAnswerSelect(qId, option) ==
    /\ phase = "running" /\ QuizMounted(isAuthorized, step) /\ effects = {}
    /\ IF showResults
       THEN UNCHANGED <<userAnswers, effects>>
       ELSE /\ userAnswers' = (qId :> option) @@ userAnswers
            /\ effects' = effects
    /\ SetLast("select", <<qId, option, userAnswers>>, ~showResults)
    /\ UNCHANGED <<now, store, apiKey, phase, isAuthorized, expiryTimestamp, step, inputText,
                   questions, loading, error, inflight, gateError, showResults, score, timerDue>>

\* A click on an option button of a rendered question
SelectAnswer ==
    \E i \in 1..Len(questions) : \E k \in 1..Len(questions[i].options) :
        handleAnswerSelect(questions[i].id, questions[i].options[k])

\* Submit Exam with onClick={() => setShowResults(!showResults)}, the button
\* staying in place
Submit_toggles ==
    /\ phase = "running" /\ QuizMounted(isAuthorized, step) /\ effects = {}
    /\ IF isComplete
       THEN showResults' = ~showResults /\ effects' = effects \cup {"score"}
       ELSE UNCHANGED <<showResults, effects>>
    /\ SetLast("submit", <<showResults>>, ~showResults /\ isComplete)
    /\ UNCHANGED <<now, store, apiKey, phase, isAuthorized, expiryTimestamp, step, inputText,
                   questions, loading, error, inflight, gateError, userAnswers, score, timerDue>>

\* A click on Submit Exam, which is disabled while the quiz is incomplete:
\* setShowResults(true); the score effect is scheduled by the render.  Once
\* the results are shown the button is no longer rendered, and setting
\* showResults to the value it has renders nothing anew.
Submit ==
    /\ phase = "running" /\ QuizMounted(isAuthorized, step) /\ effects = {}
    /\ IF ~showResults /\ isComplete
       THEN showResults' = TRUE /\ effects' = effects \cup {"score"}
       ELSE UNCHANGED <<showResults, effects>>
    /\ SetLast("submit", <<showResults>>, ~showResults /\ isComplete)
    /\ UNCHANGED <<now, store, apiKey, phase, isAuthorized, expiryTimestamp, step, inputText,
                   questions, loading, error, inflight, gateError, userAnswers, score, timerDue>>

\* useEffect(() => { if (showResults) { ...; setScore(correct) } }, [...])
RunScoreEffect ==
    /\ phase = "running" /\ "score" \in effects
    /\ score' = (IF showResults THEN countCorrect(questions, userAnswers) ELSE score)
    /\ effects' = effects \ {"score"}
    /\ SetLast("score", <<>>, FALSE)
    /\ UNCHANGED <<now, store, apiKey, phase, isAuthorized, expiryTimestamp, step, inputText,
                   questions, loading, error, inflight, gateError, userAnswers, showResults,
                   timerDue>>

-----------------------------------------------------------------------------
Next ==
    \/ Mount
    \/ \E code \in Codes : handleSubmit(code)
    \/ handleLogout
    \/ Reset
    \/ Reload
    \/ Tick
    \/ RunTimerEffect
    \/ TimerFire
    \/ \E text \in Texts : setText(text)
    \/ handleGenerate
    \/ \E o \in ServiceOutcomes : Respond(o)
    \/ SelectAnswer
    \/ Submit
    \/ RunScoreEffect

Spec == Init /\ [][Next]_vars

\* The same program with its scheduling: an effect that is pending runs,
\* and generateContent settles, after which the continuation of
\* handleGenerate runs whatever else the page is doing.
Fairness ==
    /\ WF_vars(RunTimerEffect)
    /\ WF_vars(RunScoreEffect)
    /\ SF_vars(\E o \in ServiceOutcomes : Respond(o))

LiveSpec == Init /\ [][Next]_vars /\ Fairness

-----------------------------------------------------------------------------
(* The rating, as a function of its own: getExpertiseLevel is applied to    *)
(* every score and total up to MaxTotal.                                    *)

\* Numbers are IEEE doubles.  Between 1/2 and 1, where the thresholds lie,
\* doubles are the multiples of 2^-53; the model keeps multiples of 2^-20,
\* which orders the quotients of integers up to MaxTotal and the three
\* thresholds as the doubles do (two of them that differ, differ by more
\* than 1/(10 * MaxTotal)).
Precision == 1048576

\* The nearest integer to a / b, ties to even: the rounding of a division
\* and of a decimal literal
roundDiv(a, b) ==
    LET q == a \div b
        r == a % b
    IN  IF 2 * r > b \/ (2 * r = b /\ q % 2 = 1) THEN q + 1 ELSE q

\* The double nearest to n / d, in units of 2^-20
Number(n, d) == roundDiv(n * Precision, d)

\* getExpertiseLevel with the first threshold exclusive: percentage > 0.9
getExpertiseLevel_exclusive(sc, total) ==
    IF total = 0 THEN "Novice"
    ELSE LET percentage == Number(sc, total) IN
         IF percentage > Number(9, 10) THEN "Medical Genius"
         ELSE IF percentage >= Number(75, 100) THEN "Expert"
         ELSE IF percentage >= Number(6, 10) THEN "Proficient"
         ELSE "Novice"

\* getExpertiseLevel(score, total); 0 / 0 is NaN, which no comparison accepts
getExpertiseLevel(sc, total) ==
    IF total = 0 THEN "Novice"
    ELSE LET percentage == Number(sc, total) IN
         IF percentage >= Number(9, 10) THEN "Medical Genius"
         ELSE IF percentage >= Number(75, 100) THEN "Expert"
         ELSE IF percentage >= Number(6, 10) THEN "Proficient"
         ELSE "Novice"

\* The scoreboard's call getExpertiseLevel(score, totalCount)
Rated(sc, total) ==
    [op |-> "rate", arg |-> <<sc, total>>, ret |-> getExpertiseLevel(sc, total), boot |-> ""]

RatingInit ==
    /\ now = 0 /\ store = Absent /\ apiKey = <<>>
    /\ InitialReactState
    /\ last = NoLast

Rate ==
    /\ \E total \in 0..MaxTotal : \E sc \in 0..total : last' = Rated(sc, total)
    /\ UNCHANGED <<now, store, apiKey, phase, isAuthorized, expiryTimestamp, step,
                   inputText, questions, loading, error, inflight, gateError,
                   userAnswers, showResults, score, effects, timerDue>>

RatingNext == Rate

SpecRating == RatingInit /\ [][RatingNext]_vars

-----------------------------------------------------------------------------
(* Properties *)

\* The record checkAuth read, in the state that follows the mount effect
ReadRecord == last.arg[1]
AfterCheckAuth == last.op = "checkAuth"

IsRecord(v) == v.kind = "jsonObject" /\ v.hasTs
IsGranted(v) == IsRecord(v) /\ v.status = "granted"

\* C1: for every stored record with status 'granted' and
\* now < issuedAt + SESSION_DURATION, whatever issuedAt is (the epoch itself
\* included), the startup check sets authorized = true and
\* expiresAt = issuedAt + SESSION_DURATION and leaves the record in the store.
C1_ValidRecordAuthorizes ==
    (AfterCheckAuth /\ IsGranted(ReadRecord) /\ now < ReadRecord.ts + EXPIRY_TIME_MS)
        => /\ isAuthorized
           /\ expiryTimestamp = <<ReadRecord.ts + EXPIRY_TIME_MS>>
           /\ store = ReadRecord

\* C2: for every stored record with now >= issuedAt + SESSION_DURATION, the
\* startup check leaves the app unauthorized and the store without the record.
C2_ExpiredRecordPurged ==
    (AfterCheckAuth /\ IsRecord(ReadRecord) /\ now >= ReadRecord.ts + EXPIRY_TIME_MS)
        => /\ ~isAuthorized
           /\ store = Absent

\* C2 happens: a granted record exactly one session duration old was read
\* and purged.
C2_Witness ==
    /\ AfterCheckAuth /\ IsGranted(ReadRecord)
    /\ ReadRecord.ts > 0 /\ now = ReadRecord.ts + EXPIRY_TIME_MS
    /\ ~isAuthorized /\ store = Absent

\* A stored value that is not a granted record with a timestamp
Malformed(v) ==
    \/ v.kind \in {"empty", "text", "jsonNull"}
    \/ v.kind = "jsonObject" /\ (v.status # "granted" \/ ~v.hasTs)

\* C3: a malformed stored value (not parsable as a record, status other
\* than 'granted', timestamp missing) leaves the app unauthorized, as an
\* absent record does, and the startup check removes it from the store.
C3_MalformedPurged ==
    (AfterCheckAuth /\ Malformed(ReadRecord))
        => /\ ~isAuthorized
           /\ store = Absent

\* The same letter, in either case
SameLetter(a, b) ==
    a = b \/ \E k \in 1..26 : {a, b} = {UPPER[k], LOWER[k]}

\* code is canon with whitespace put around it and letters changed in case
DiffersByPaddingAndCase(code, canon) ==
    \E lead \in 0..Len(code) :
        /\ lead + Len(canon) <= Len(code)
        /\ \A j \in 1..lead : code[j] \in WhiteSpace
        /\ \A j \in 1..Len(canon) : SameLetter(code[lead + j], canon[j])
        /\ \A j \in (lead + Len(canon) + 1)..Len(code) : code[j] \in WhiteSpace

AllowListed(code) ==
    \E i \in 1..Len(VALID_CODES) : DiffersByPaddingAndCase(code, VALID_CODES[i])

\* C4: unlock(code) returns true iff the code, trimmed and lower-cased, is in
\* the allow-list, so a code that differs from an allow-listed value only by
\* surrounding whitespace or letter case gives the result and the state
\* change of the canonical value: the record written, the authorized flag
\* and the expiry do not depend on how the code was typed.
C4_UnlockIffAllowListed ==
    last.op = "unlock"
        => /\ last.ret <=> AllowListed(last.arg)
           /\ last.ret => /\ isAuthorized
                           /\ store = JsonObject("granted", TRUE, now)
                           /\ expiryTimestamp = <<now + EXPIRY_TIME_MS>>
                           /\ ~gateError
           /\ ~last.ret => ~isAuthorized /\ gateError

\* C4 happens: a code typed with padding or capitals, not literally in the
\* allow-list, unlocked the app.
C4_Witness ==
    /\ last.op = "unlock" /\ last.ret
    /\ ~includes(VALID_CODES, last.arg)
    /\ Len(last.arg) > Len(trim(last.arg))
    /\ isAuthorized

\* C5: after a successful unlock, a checkSession at the same instant (a
\* reload) reads back the record just written and returns authorized = true
\* with expiresAt = unlock time + SESSION_DURATION.
C5_CheckAfterUnlock ==
    (AfterCheckAuth /\ last.arg[2] = "reload after unlock")
        => /\ ReadRecord = JsonObject("granted", TRUE, now)
           /\ isAuthorized
           /\ expiryTimestamp = <<now + EXPIRY_TIME_MS>>

QuizState == <<step, inputText, questions, loading, error, userAnswers, showResults, score>>

\* C6: a failed unlock returns false and changes nothing: the store, the
\* authorized flag, the expiry timestamp and the quiz state stay as they were.
C6_FailedUnlockChangesNothing ==
    [][(last'.op = "unlock" /\ ~AllowListed(last'.arg))
         => /\ ~last'.ret
            /\ UNCHANGED <<store, isAuthorized, expiryTimestamp>>
            /\ UNCHANGED QuizState]_vars

\* C6 happens: a code outside the allow-list was submitted at the gate after
\* a logout, the expiry timestamp of the session before still in memory.
C6_Witness ==
    /\ last.op = "unlock" /\ ~last.ret /\ gateError
    /\ last.arg # <<>>
    /\ expiryTimestamp # <<>>

QuizEmpty ==
    /\ step = "input" /\ questions = <<>>
    /\ userAnswers = NoAnswers /\ ~showResults

\* C7: logout, from any state, removes the authorization record and leaves
\* the app unauthorized, so that a checkSession that follows returns
\* authorized = false; it also resets the quiz session to Empty.
C7_Logout ==
    last.op = "logout"
        => /\ store = Absent
           /\ ~isAuthorized
           /\ \A t \in ClockValues : ~checkAuth(store, t).isAuthorized
           /\ QuizEmpty

\* C7 happens: logout from a quiz in progress.
C7_Witness ==
    /\ last.op = "logout" /\ last.arg = <<"quiz">>
    /\ store = Absent /\ ~isAuthorized /\ QuizEmpty

\* C8: while the app is authorized the countdown is evaluated on mount and
\* then once per minute; the first evaluation with now >= expiresAt forces a
\* reload, whose checkSession leaves the app at the gate: the app is never
\* authorized after a timer evaluation that found the session expired.
C8_TimerForcesGate ==
    /\ (phase = "running" /\ isAuthorized)
          => ("timer" \in effects \/ timerDue # <<>>)
    /\ (last.op = "timer" /\ ~last.ret)
          => /\ isAuthorized /\ now < expiryTimestamp[1]
             /\ timerDue # <<>>
             /\ timerDue[1] > now /\ timerDue[1] <= now + TIMER_INTERVAL
    /\ (last.op = "timer" /\ last.ret)
          => phase = "boot" /\ ~isAuthorized
    /\ (AfterCheckAuth /\ last.arg[2] = "expiry")
          => ~isAuthorized /\ store = Absent

\* C8 happens: the timer found a granted session expired and forced a
\* reload, and the reloaded page is at the gate with the record purged.
C8_Witness ==
    /\ AfterCheckAuth /\ last.arg[2] = "expiry"
    /\ IsGranted(ReadRecord) /\ ReadRecord.ts > 0
    /\ ~isAuthorized /\ store = Absent

\* The questions array of the raw response, in the state that follows a
\* response carrying a quiz
RawResponse == last.arg[1].text[1].questions

\* C9: on a successful generation the questions handed to the quiz have the
\* ids 1..N in array order, whatever ids (duplicate, missing, out of order)
\* the raw response carried; the ids are pairwise distinct, and nothing else
\* of a question is changed.
C9_IdsSequential ==
    /\ \A i \in 1..Len(questions) : questions[i].id = i
    /\ \A i, j \in 1..Len(questions) : i # j => questions[i].id # questions[j].id
    /\ (last.op = "respond" /\ last.ret)
          => /\ questions = last.arg[2].data[1]
             /\ Len(questions) = Len(RawResponse)
             /\ \A i \in 1..Len(questions) :
                   /\ questions[i].options = RawResponse[i].options
                   /\ questions[i].correctAnswer = RawResponse[i].correctAnswer

\* C9 happens: a response of two questions, the first without an id and
\* the second with an id out of range, or both with the same id, was loaded.
C9_Witness ==
    /\ last.op = "respond" /\ last.ret /\ Len(questions) = 2
    /\ \/ /\ "id" \notin DOMAIN RawResponse[1] /\ "id" \in DOMAIN RawResponse[2]
          /\ RawResponse[2].id = 7
       \/ /\ "id" \in DOMAIN RawResponse[1] /\ "id" \in DOMAIN RawResponse[2]
          /\ RawResponse[1].id = RawResponse[2].id
    /\ questions[1].id = 1 /\ questions[2].id = 2

Unparsable == {"empty", "notJson", "jsonNull", "noQuestions", "questionsNotArray"}

\* C10: if the text of the response is empty or cannot be parsed into the
\* quiz structure, generateQuiz returns an error result (success = false, no
\* data, a message), never a success.
C10_UnparsableIsError ==
    (last.op = "respond" /\ last.arg[1].kind = "response"
        /\ last.arg[1].text[1].kind \in Unparsable)
      => /\ ~last.arg[2].success
         /\ last.arg[2].data = <<>>
         /\ last.arg[2].error # <<>>
         /\ error = last.arg[2].error

\* C10 happens: a JSON text without a questions array was received and the
\* TypeError it raised came back as the error of the result.
C10_Witness ==
    /\ last.op = "respond" /\ last.arg[1].kind = "response"
    /\ last.arg[1].text[1].kind = "noQuestions"
    /\ ~last.arg[2].success /\ error = <<TypeErrorMessage>>
    /\ step = "input" /\ ~loading

\* The outcome of generateContent a step handled and the result
\* generateQuizFromText made of it
Outcome == last.arg[1]
Result == last.arg[2]

\* The service rejected the access key
KeyRejected(o) ==
    o.kind = "throw" /\ o.isError /\ o.message \in {ApiKeyMessage, ApiKeyMessage2}

\* C11: credential failures are told from all others.  Without an access
\* key generateQuiz returns the missing-key error and no call is issued; a
\* key the service rejected gives the configuration error; a failure that
\* is not about the key (transport, empty text, text that does not parse,
\* no questions array) never gives the configuration error.
C11_CredentialFailuresDistinct ==
    /\ (last.op = "generate" /\ last.arg = <<"no key">>)
          => (error = <<MissingKeyError>> /\ inflight = 0 /\ ~loading)
    /\ (last.op = "respond" /\ KeyRejected(Outcome))
          => (~Result.success /\ Result.error = <<ConfigurationError>>
                /\ Result.error # <<Outcome.message>>)
    /\ (last.op = "respond" /\ ~KeyRejected(Outcome))
          => Result.error # <<ConfigurationError>>

\* A step in which a generation request failed: generateQuizFromText
\* returned at once for want of a key, or generateContent settled and the
\* result was not a success
GenerationFailed ==
    \/ last'.op = "generate" /\ last'.arg = <<"no key">>
    \/ last'.op = "respond" /\ ~last'.ret

\* C12: a failed generation request (no key, service error, empty text,
\* parse error, no questions array) comes back as a value with
\* success = false and a message; handleGenerate shows the message, lowers
\* loading and leaves the rest as it was: step 'input', the questions, the
\* text, the answers, the authorization.
C12_FailureIsValue ==
    [][GenerationFailed =>
          /\ (last'.op = "respond") =>
                 /\ Result'.success = FALSE /\ Result'.data = <<>> /\ Result'.error # <<>>
                 /\ error' = Result'.error
          /\ error' # <<>> /\ ~loading'
          /\ step = "input"
          /\ UNCHANGED <<step, questions, inputText, userAnswers, showResults, score,
                         isAuthorized, expiryTimestamp, store>>]_vars

\* C12 happens: generateContent threw a value that is not an Error; the
\* input screen shows the generic message over the text that was sent.
C12_Witness ==
    /\ last.op = "respond" /\ Outcome.kind = "throw" /\ ~Outcome.isError
    /\ ~Result.success /\ error = <<FailedMessage>>
    /\ isAuthorized /\ step = "input" /\ questions = <<>> /\ ~loading
    /\ inputText = Repeat("x", MIN_TEXT_LENGTH)

\* C13: a click on Generate over a text whose trimmed length is below 50
\* issues no request, does not raise loading and leaves the session as it
\* was; nothing but the error changes, and when handleGenerate ran the
\* error is the validation message.
C13_ShortTextRejected ==
    [][(last'.op = "generate" /\ Len(trim(inputText)) < MIN_TEXT_LENGTH) =>
          /\ inflight' = inflight /\ loading' = loading
          /\ last'.arg \in {<<"disabled">>, <<"rejected">>}
          /\ (last'.arg = <<"rejected">>) => error' = <<TooShortError>>
          /\ (last'.arg = <<"disabled">>) => error' = error
          /\ UNCHANGED <<step, questions, inputText, userAnswers, showResults, score,
                         isAuthorized, expiryTimestamp, store>>]_vars

\* C13 happens: the text is 50 characters long as typed, so the button is
\* enabled, but 49 once trimmed; the click set the validation error and
\* issued nothing.
C13_Witness ==
    /\ last.op = "generate" /\ last.arg = <<"rejected">>
    /\ inputText = <<" ">> \o Repeat("x", MIN_TEXT_LENGTH - 1)
    /\ apiKey # <<>>
    /\ error = <<TooShortError>> /\ inflight = 0 /\ ~loading /\ step = "input"

\* C14: at most one generation request is outstanding, and loading is true
\* while it is; a step taken while loading is true (a click on Generate,
\* the logo, logout, unlock, anything else) never adds a request.
C14_OneRequestAtATime ==
    [][/\ inflight' <= 1
       /\ (inflight' = 1) => loading'
       /\ loading => inflight' <= inflight]_vars

\* C14 happens: a request is outstanding, the text is long enough, and the
\* click on Generate did nothing
C14_Witness ==
    /\ last.op = "generate" /\ last.arg = <<"disabled">>
    /\ loading /\ inflight = 1
    /\ ~isTooShort(inputText) /\ ~rejectsText(inputText)

\* Every question of the loaded quiz has an entry in userAnswers
EveryQuestionAnswered ==
    \A i \in 1..Len(questions) : questions[i].id \in DOMAIN userAnswers

\* C15: a submit attempt with at least one question unanswered changes
\* nothing: showResults stays false, no score is computed (none is
\* scheduled either), the answers are as they were.
C15_IncompleteSubmitRejected ==
    [][(last'.op = "submit" /\ ~EveryQuestionAnswered) =>
          /\ ~showResults /\ ~showResults'
          /\ ~last'.ret
          /\ "score" \notin effects'
          /\ UNCHANGED <<userAnswers, score, questions, step>>]_vars

\* C15 happens: one of two questions is answered and Submit was clicked
C15_Witness ==
    /\ last.op = "submit" /\ ~last.ret
    /\ Len(questions) = 2 /\ answeredCount = 1
    /\ ~showResults /\ score = 0 /\ effects = {}

\* C16: in every state in which showResults is true, score is the number
\* of questions q with userAnswers[q.id] = q.correctAnswer.
C16_ScoreIsCorrectCount ==
    (QuizMounted(isAuthorized, step) /\ showResults)
        => score = countCorrect(questions, userAnswers)

\* C17: in every state of a rendered quiz, isComplete (the number of keys
\* of userAnswers equals the number of questions) is true iff every
\* question id of the loaded quiz has an entry in userAnswers.
C17_IsCompleteIffAllAnswered ==
    QuizMounted(isAuthorized, step) => (isComplete <=> EveryQuestionAnswered)

\* C17 happens: the second of two questions was just answered, the quiz is
\* complete and not yet submitted
C17_Witness ==
    /\ QuizMounted(isAuthorized, step) /\ Len(questions) = 2
    /\ last.op = "select" /\ last.ret /\ Cardinality(DOMAIN last.arg[3]) = 1
    /\ isComplete /\ EveryQuestionAnswered /\ ~showResults

\* C18: handleAnswerSelect called once the results are shown changes
\* neither the answers nor showResults nor the score, schedules nothing and
\* raises no error.
C18_SelectAfterSubmitIgnored ==
    [][(last'.op = "select" /\ showResults) =>
          /\ ~last'.ret
          /\ UNCHANGED <<userAnswers, showResults, score, effects, error, questions, step>>]_vars

\* C18 happens: the results of a two-question quiz are shown, the score is
\* in, and an option other than the stored answer was selected
C18_Witness ==
    /\ last.op = "select" /\ ~last.ret /\ showResults
    /\ Len(questions) = 2 /\ score = countCorrect(questions, userAnswers)
    /\ userAnswers[last.arg[1]] # last.arg[2]

\* The question id, the option and the answers before of the select step
\* that leads to the next state
SelectedId == last'.arg[1]
SelectedOption == last'.arg[2]

\* C19: before the results are shown, handleAnswerSelect(id, o) leaves
\* userAnswers[id] = o with one entry for id, whatever was stored for id
\* before (so a second selection replaces the first), and the entry of
\* every other question id as it was.
C19_LastSelectionStays ==
    [][(last'.op = "select" /\ ~showResults) =>
          /\ DOMAIN userAnswers' = DOMAIN userAnswers \cup {SelectedId}
          /\ userAnswers'[SelectedId] = SelectedOption
          /\ \A id \in DOMAIN userAnswers \ {SelectedId} : userAnswers'[id] = userAnswers[id]]_vars

\* C19 happens: question 1 was answered A and then B, while question 2
\* keeps its answer
C19_Witness ==
    /\ last.op = "select" /\ last.ret
    /\ last.arg[1] = 1 /\ last.arg[2] = "B"
    /\ DOMAIN last.arg[3] = {1, 2} /\ last.arg[3][1] = "A"
    /\ DOMAIN userAnswers = {1, 2}
    /\ userAnswers[1] = "B" /\ userAnswers[2] = last.arg[3][2]

\* The step ends the quiz session: handleReset (logo, Restart), logout, or
\* the page being loaded anew
SessionEnds == last'.op \in {"reset", "logout"} \/ phase' = "boot"

\* C20: within a quiz session showResults changes only from false to true,
\* by a submit, and stays true until the session ends; a submit after that
\* changes nothing and schedules no scoring; once the score is in, it keeps
\* its value until the session ends.
C20_SubmittedFlipsOnce ==
    [][/\ (showResults /\ ~SessionEnds) => showResults'
       /\ (showResults' # showResults /\ ~SessionEnds)
             => (~showResults /\ showResults' /\ last'.op = "submit")
       /\ (last'.op = "submit" /\ showResults)
             => UNCHANGED <<showResults, score, userAnswers, questions, effects>>
       /\ (showResults /\ "score" \notin effects /\ ~SessionEnds) => score' = score]_vars

\* C20 happens: the results are shown with a score of 1 out of 2, and
\* submit was invoked once more
C20_Witness ==
    /\ last.op = "submit" /\ last.arg = <<TRUE>> /\ ~last.ret
    /\ showResults /\ Len(questions) = 2
    /\ score = 1 /\ score = countCorrect(questions, userAnswers)

\* C21: reset is enabled in every state of the authorized app (no quiz, a
\* quiz in progress, a quiz submitted) and leaves step 'input', no
\* questions, no answers, showResults false and no score; a quiz loaded
\* after it starts with no answers and not submitted.
C21_ResetAlwaysEmpties ==
    /\ (phase = "running" /\ isAuthorized /\ effects = {}) => ENABLED Reset
    /\ (last.op = "reset")
          => /\ step = "input" /\ questions = <<>>
             /\ userAnswers = NoAnswers /\ ~showResults /\ score = 0
    /\ (last.op = "respond" /\ last.ret /\ QuizMounted(isAuthorized, step))
          => (userAnswers = NoAnswers /\ ~showResults /\ score = 0)

\* C21 happens: a submitted quiz with both questions answered was reset
C21_Witness ==
    /\ last.op = "reset" /\ last.arg = <<"quiz", TRUE, {1, 2}>>
    /\ step = "input" /\ questions = <<>> /\ userAnswers = NoAnswers /\ ~showResults

\* C22: for all integers 0 <= score <= total with total >= 1 the rating is
\* 'Medical Genius' iff 10*score >= 9*total; else 'Expert' iff
\* 4*score >= 3*total; else 'Proficient' iff 5*score >= 3*total; else
\* 'Novice'.
C22_RatingThresholds ==
    (last.op = "rate" /\ last.arg[2] >= 1) =>
        LET sc == last.arg[1]
            total == last.arg[2]
        IN  last.ret =
              (IF 10 * sc >= 9 * total THEN "Medical Genius"
               ELSE IF 4 * sc >= 3 * total THEN "Expert"
               ELSE IF 5 * sc >= 3 * total THEN "Proficient"
               ELSE "Novice")

\* C22 happens: 9 out of 10, exactly on the highest threshold, is rated
\* 'Medical Genius'
C22_Witness ==
    last.op = "rate" /\ last.arg = <<9, 10>> /\ last.ret = "Medical Genius"

\* C23: questions are set to a new value only by the arrival of a
\* successful response, only when step is 'input' and there are no
\* questions; the load leads to step 'quiz' with no answers and
\* showResults false.  While step is 'quiz' the questions are not replaced.
C23_LoadOnlyWhenEmpty ==
    [][/\ (last'.op = "respond" /\ last'.ret)
             => /\ step = "input" /\ questions = <<>>
                /\ questions' = Result'.data[1]
                /\ step' = "quiz"
                /\ userAnswers' = NoAnswers /\ ~showResults' /\ score' = 0
       /\ (questions' # questions /\ questions' # <<>>) => (last'.op = "respond" /\ last'.ret)
       /\ (step = "quiz" /\ step' = "quiz") => questions' = questions]_vars

\* C23 happens: two questions were loaded into an empty session of the
\* authorized app, and the quiz is shown with nothing answered
C23_Witness ==
    /\ last.op = "respond" /\ last.ret
    /\ isAuthorized /\ step = "quiz" /\ Len(questions) = 2 /\ questions = Result.data[1]
    /\ userAnswers = NoAnswers /\ ~showResults /\ ~loading /\ inflight = 0

\* C24: when the store's get raises during the startup check, the check
\* ends as for a parse failure: the app runs, unauthorized, at the gate, and
\* no error leaves the check.
C24_ReadFailureNonFatal ==
    (AfterCheckAuth /\ getItem_throws(ReadRecord))
        => (phase = "running" /\ ~isAuthorized)

\* C25: from the load of a quiz to the end of its session (reset, logout,
\* page load) the questions do not change and the set of answered question
\* ids only grows: no step removes an entry of userAnswers.
C25_QuestionsFixedAnswersGrow ==
    [][(step = "quiz" /\ ~SessionEnds) =>
          /\ step' = "quiz" /\ questions' = questions
          /\ DOMAIN userAnswers \subseteq DOMAIN userAnswers']_vars

\* C25 happens: with question 1 answered, the stored option of question 1
\* was selected again; both the entry and the questions are as before
C25_Witness ==
    /\ last.op = "select" /\ last.ret /\ step = "quiz" /\ Len(questions) = 2
    /\ last.arg[1] = 1 /\ DOMAIN last.arg[3] = {1} /\ last.arg[3][1] = last.arg[2]
    /\ userAnswers = last.arg[3]

\* A request is outstanding and handleReset has run since it was issued (by
\* the logo or by logout): the text that was sent is gone.  The textarea is
\* disabled while loading, so that nothing else empties it.
ResetWhileOutstanding == inflight = 1 /\ inputText = <<>>

\* C26: a response that arrives after a reset or a logout that happened
\* while its request was outstanding loads no questions: step stays
\* 'input' and the questions stay empty.
C26_LateResponseIgnored ==
    [][(ResetWhileOutstanding /\ last'.op = "respond")
          => (step' = "input" /\ questions' = <<>>)]_vars

\* C27: whenever the app is authorized, the store holds a record with
\* status 'granted', and expiryTimestamp is not null and equals that
\* record's timestamp + EXPIRY_TIME_MS.
C27_AuthorizedMatchesStore ==
    isAuthorized =>
        /\ IsGranted(store)
        /\ expiryTimestamp = <<store.ts + EXPIRY_TIME_MS>>

\* C27 happens: the startup check accepted a record written earlier than
\* the check, and the expiry is counted from the record
C27_Witness ==
    /\ AfterCheckAuth /\ isAuthorized /\ phase = "running"
    /\ IsGranted(store) /\ store.ts > 0 /\ store.ts < now
    /\ expiryTimestamp = <<store.ts + EXPIRY_TIME_MS>>

\* C28: whenever step is 'quiz' the question list is not empty; a
\* generation that succeeds with no question leaves step 'input'.
C28_QuizHasQuestions ==
    step = "quiz" => questions # <<>>

\* C29: every generation request that raised loading is followed by a
\* state in which loading is false, whatever the outcome of the request.
C29_LoadingEventuallyLowered ==
    loading ~> ~loading

\* C29 happens: the request failed in transport, and loading is false again
C29_Witness ==
    /\ last.op = "respond" /\ Outcome.kind = "throw" /\ Outcome.isError
    /\ Outcome.message = NetworkMessage
    /\ error = <<NetworkMessage>> /\ ~loading /\ inflight = 0
    /\ ~generateDisabled(loading, inputText)

\* The step is an evaluation of the countdown that called
\* window.location.reload()
ForcedReload == last'.op = "timer" /\ last'.boot = "expiry"

\* C30: the timer reloads the page only when the stored record is one the
\* startup check rejects, at that instant and at any later one, and it
\* leaves the store as it is; the check that follows a forced reload
\* purges the record and leaves the app running at the gate with no timer
\* mounted, so that no forced reload follows before the next unlock.
C30_NoReloadLoop ==
    [][/\ (last'.op = "timer") => store' = store
       /\ ForcedReload
             => /\ isAuthorized /\ IsGranted(store)
                /\ \A t \in ClockValues : t >= now => ~isValidAuth(store, t)
       /\ (last'.op = "checkAuth" /\ last'.arg[2] = "expiry")
             => /\ phase' = "running" /\ ~isAuthorized' /\ store' = Absent
                /\ ~TimerMounted(isAuthorized', expiryTimestamp')
                /\ timerDue' = <<>> /\ "timer" \notin effects']_vars

\* C30 happens: the timer fired at the very instant the record expired, and
\* the check of the reloaded page, at the same instant, purged the record;
\* the gate is shown and no timer runs
C30_Witness ==
    /\ AfterCheckAuth /\ last.arg[2] = "expiry"
    /\ IsGranted(ReadRecord) /\ now = ReadRecord.ts + EXPIRY_TIME_MS
    /\ phase = "running" /\ ~isAuthorized /\ store = Absent
    /\ timerDue = <<>> /\ effects = {}
====
